---- MODULE Spec2Model ----
(***************************************************************************)
(* Model of sim/src/make/spawner.rs: TripSpec, TripSpawner::schedule_trip, *)
(* TripSpawner::schedule_trips, TripSpawner::finalize.                     *)
(*                                                                         *)
(* Rust values are written as follows.                                     *)
(*   Option<T>     None is <<>>, Some(x) is <<x>>                          *)
(*   Position      <<lane, dist_along>>                                    *)
(*   CarID         <<id, vehicle type>>                                    *)
(*   DrivingGoal   [kind |-> "ParkNear", b] or [kind |-> "Border", i, l]   *)
(*   SidewalkSpot  [connection, sidewalk_pos]                              *)
(*   TripSpec      a record with a tag field and the variant's fields      *)
(*   a panic       a result whose panic field names the panic              *)
(***************************************************************************)
EXTENDS Integers, Sequences, FiniteSets, TLC

VARIABLES
    map,        \* the &Map every call reads: lane lengths, bike racks, borders
    call,       \* the last schedule_trip call on a bare TripSpec and its result
    batches,    \* per caller, the plans schedule_trip returned, not yet merged
    trips,      \* TripSpawner.trips, the plan buffer (what finalize has not drained)
    taken,      \* the plans finalize has drained so far, in order
    people,     \* TripManager: the registered PersonIDs
    ledger,     \* TripManager.trips: the registered trips, TripID = index
    scheduler,  \* Scheduler: the pushed items, in push order
    started,    \* the commands the scheduler has handed out, in order
    pc,         \* "spawning", "finalizing", "done", or "panic_" and the panic
    asked,      \* the arguments of the schedule_trip calls made, in call order
    path        \* the last get_pathfinding_request call and its result

vars ==
    <<map, call, batches, trips, taken, people, ledger, scheduler, started, pc,
      asked, path>>

(***************************************************************************)
(* Bounds                                                                  *)
(***************************************************************************)
NumLanes == 2
MaxDist == 2
NumBuildings == 2
NumPeople == 1
MaxTime == 1
MaxPlans == 2
MaxCalls == 3
NumCallers == 2

Lanes == 1..NumLanes
Dists == 0..MaxDist
Buildings == 1..NumBuildings
Intersections == {1}
Times == 0..MaxTime
Callers == 1..NumCallers
PersonIDs == 1..(NumPeople + 1)
Positions == Lanes \X Dists

None == <<>>
Some(x) == <<x>>
IsSome(o) == o # <<>>
Unwrap(o) == o[1]

(***************************************************************************)
(* Vehicles, goals, constraints                                            *)
(***************************************************************************)
VehicleType == {"Car", "Bus", "Bike"}
CarIDs == {<<1, "Car">>, <<2, "Bike">>, <<3, "Bus">>}

ParkNear(b) == [kind |-> "ParkNear", b |-> b]
Border(i, l) == [kind |-> "Border", i |-> i, l |-> l]
DrivingGoal ==
    {ParkNear(b) : b \in Buildings} \cup {Border(i, l) : i \in Intersections, l \in Lanes}

PathConstraints == {"Pedestrian", "Car", "Bike"}

(***************************************************************************)
(* The map.  Its queries are read-only lookups into data that the model    *)
(* chooses freely in Init.                                                 *)
(*   lane_len[l]   map.get_l(l).length()                                   *)
(*   rack[b]       the sidewalk lane of building b's bike rack, 0 if the   *)
(*                 building has no biking connection                       *)
(*   border[i]     whether a pedestrian can end a trip at border i         *)
(*   nogoal        the (goal, constraints) pairs goal_pos cannot resolve   *)
(***************************************************************************)
LaneLens ==
    {[l \in Lanes |-> ((l - 1 + k) % MaxDist) + 1] : k \in 0..(MaxDist - 1)}

Maps ==
    [lane_len : LaneLens,
     rack : [Buildings -> {0} \cup Lanes],
     border : [Intersections -> BOOLEAN],
     nogoal : {{}} \cup {{<<g, c>>} : g \in DrivingGoal, c \in {"Car", "Bike"}}]

\* map.get_b(b).sidewalk_pos
BuildingSidewalkPos(b) == <<((b - 1) % NumLanes) + 1, 0>>

\* DrivingGoal::goal_pos(constraints, map)
goal_pos(goal, constraints, m) ==
    IF <<goal, constraints>> \in m.nogoal THEN None
    ELSE IF goal.kind = "ParkNear" THEN Some(BuildingSidewalkPos(goal.b))
    ELSE Some(<<goal.l, m.lane_len[goal.l]>>)

\* SidewalkSpot::building(b, map)
SidewalkSpot_building(b, m) ==
    [connection |-> <<"Building", b>>, sidewalk_pos |-> BuildingSidewalkPos(b)]

\* SidewalkSpot::bike_rack(b, map)
SidewalkSpot_bike_rack(b, m) ==
    IF m.rack[b] = 0 THEN None
    ELSE Some([connection |-> <<"BikeRack", b>>, sidewalk_pos |-> <<m.rack[b], 0>>])

\* SidewalkSpot::end_at_border(i, map)
SidewalkSpot_end_at_border(i, m) ==
    IF m.border[i]
    THEN Some([connection |-> <<"Border", i>>, sidewalk_pos |-> <<1, m.lane_len[1]>>])
    ELSE None

\* SidewalkSpot::bus_stop(stop, map)
SidewalkSpot_bus_stop(stop, m) ==
    [connection |-> <<"BusStop", stop>>, sidewalk_pos |-> <<1, 0>>]

\* SidewalkSpot::deferred_parking_spot()
SidewalkSpot_deferred_parking_spot ==
    [connection |-> <<"DeferredParkingSpot", 0>>, sidewalk_pos |-> <<1, 0>>]

(***************************************************************************)
(* TripSpec                                                                *)
(***************************************************************************)
VehicleAppearing(start_pos, goal, use_vehicle, retry) ==
    [tag |-> "VehicleAppearing", start_pos |-> start_pos, goal |-> goal,
     use_vehicle |-> use_vehicle, retry_if_no_room |-> retry]
SpawningFailure(use_vehicle, error) ==
    [tag |-> "SpawningFailure", use_vehicle |-> use_vehicle, error |-> error]
UsingParkedCar(car, start_bldg, goal) ==
    [tag |-> "UsingParkedCar", car |-> car, start_bldg |-> start_bldg, goal |-> goal]
JustWalking(start, goal) ==
    [tag |-> "JustWalking", start |-> start, goal |-> goal]
UsingBike(bike, start, goal) ==
    [tag |-> "UsingBike", bike |-> bike, start |-> start, goal |-> goal]
UsingTransit(start, goal, route, stop1, maybe_stop2) ==
    [tag |-> "UsingTransit", start |-> start, goal |-> goal, route |-> route,
     stop1 |-> stop1, maybe_stop2 |-> maybe_stop2]

(***************************************************************************)
(* TripSpawner::schedule_trip, the match on the spec                       *)
(***************************************************************************)
Ok(spec) == [panic |-> "none", spec |-> spec]
Panic(why, spec) == [panic |-> why, spec |-> spec]

constraints_for_car_only(use_vehicle) ==
    IF use_vehicle[2] = "Car" THEN "Car" ELSE "Bike"

\* lines 110-114
constraints_for(use_vehicle) ==
    IF use_vehicle[2] = "Bike" THEN "Bike" ELSE "Car"

spawn_out_of_bounds_strict(start_pos, m) ==
    start_pos[2] > m.lane_len[start_pos[1]]

spawn_out_of_bounds_never(start_pos, m) == FALSE

\* lines 96-98
spawn_out_of_bounds(start_pos, m) ==
    start_pos[2] >= m.lane_len[start_pos[1]]

\* lines 99-108
spawn_at_border_edge(start_pos, goal, m) ==
    /\ goal.kind = "Border"
    /\ start_pos[1] = goal.l
    /\ start_pos[2] = m.lane_len[goal.l]

validate_vehicle_appearing_keeps_spec(spec, m) ==
    IF spec.start_pos[2] >= m.lane_len[spec.start_pos[1]]
    THEN Panic("isnt_that_long", spec)
    ELSE Ok(spec)

\* lines 90-121
validate_vehicle_appearing(spec, m) ==
    IF spawn_out_of_bounds(spec.start_pos, m)
    THEN Panic("isnt_that_long", spec)
    ELSE IF spawn_at_border_edge(spec.start_pos, spec.goal, m)
    THEN Panic("edge_of_border", spec)
    ELSE IF ~IsSome(goal_pos(spec.goal, constraints_for(spec.use_vehicle), m))
    THEN Ok(SpawningFailure(Some(spec.use_vehicle),
                            <<"goal_pos failed", spec.goal,
                              constraints_for(spec.use_vehicle)>>))
    ELSE Ok(spec)

validate_just_walking_lenient(spec, m) == Ok(spec)

\* lines 124-131
validate_just_walking(spec, m) ==
    IF spec.start = spec.goal
    THEN Panic("walking_doesnt_make_sense", spec)
    ELSE Ok(spec)

backup_plan_park_only(start, goal, m) ==
    IF goal.kind = "ParkNear"
    THEN Some(JustWalking(SidewalkSpot_building(start, m),
                          SidewalkSpot_building(goal.b, m)))
    ELSE None

\* lines 134-145
backup_plan(start, goal, m) ==
    IF goal.kind = "ParkNear"
    THEN Some(JustWalking(SidewalkSpot_building(start, m),
                          SidewalkSpot_building(goal.b, m)))
    ELSE IF IsSome(SidewalkSpot_end_at_border(goal.i, m))
    THEN Some(JustWalking(SidewalkSpot_building(start, m),
                          Unwrap(SidewalkSpot_end_at_border(goal.i, m))))
    ELSE None

same_sidewalk_spot(start_spot, goal_spot) == start_spot = goal_spot

\* line 150: start_spot.sidewalk_pos.lane() == goal_spot.sidewalk_pos.lane()
same_sidewalk(start_spot, goal_spot) ==
    start_spot.sidewalk_pos[1] = goal_spot.sidewalk_pos[1]

\* backup_plan.unwrap(), lines 156, 163, 168
unwrap_backup(backup, spec) ==
    IF IsSome(backup) THEN Ok(Unwrap(backup)) ELSE Panic("unwrap_on_none", spec)

\* lines 132-178
validate_using_bike(spec, m) ==
    LET backup == backup_plan(spec.start, spec.goal, m)
        start_spot == SidewalkSpot_bike_rack(spec.start, m)
    IN  IF IsSome(start_spot)
        THEN IF spec.goal.kind = "ParkNear"
             THEN LET goal_spot == SidewalkSpot_bike_rack(spec.goal.b, m)
                  IN  IF IsSome(goal_spot)
                      THEN IF same_sidewalk(Unwrap(start_spot), Unwrap(goal_spot))
                           THEN unwrap_backup(backup, spec)
                           ELSE Ok(spec)
                      ELSE unwrap_backup(backup, spec)
             ELSE Ok(spec)
        ELSE IF IsSome(backup)
        THEN unwrap_backup(backup, spec)
        ELSE Ok(SpawningFailure(Some(spec.bike),
                                <<"cant bike cant walk", spec.start, spec.goal>>))

\* lines 89-180
validate(spec, m) ==
    CASE spec.tag = "VehicleAppearing" -> validate_vehicle_appearing(spec, m)
      [] spec.tag = "SpawningFailure" -> Ok(spec)
      [] spec.tag = "UsingParkedCar" -> Ok(spec)
      [] spec.tag = "JustWalking" -> validate_just_walking(spec, m)
      [] spec.tag = "UsingBike" -> validate_using_bike(spec, m)
      [] spec.tag = "UsingTransit" -> Ok(spec)

\* TripSpawnPlan, lines 55-63
TripSpawnPlan(person, start_time, spec, trip_start, purpose, cancelled, modified) ==
    [person |-> person, start_time |-> start_time, spec |-> spec,
     trip_start |-> trip_start, purpose |-> purpose, cancelled |-> cancelled,
     modified |-> modified]

schedule_trip_swaps_flags(person, start_time, spec, trip_start, purpose, cancelled, modified, m) ==
    LET r == validate(spec, m)
    IN  [panic |-> r.panic,
         plan |-> TripSpawnPlan(person, start_time, r.spec, trip_start, purpose,
                                modified, cancelled)]

\* TripSpawner::schedule_trip, lines 77-185
schedule_trip(person, start_time, spec, trip_start, purpose, cancelled, modified, m) ==
    LET r == validate(spec, m)
    IN  [panic |-> r.panic,
         plan |-> TripSpawnPlan(person, start_time, r.spec, trip_start, purpose,
                                cancelled, modified)]

(***************************************************************************)
(* The specs a caller can hand to schedule_trip                            *)
(***************************************************************************)
\* the sidewalk spots a caller can name on map m
SidewalkSpots(m) ==
    {SidewalkSpot_building(b, m) : b \in Buildings}
        \cup {Unwrap(SidewalkSpot_end_at_border(i, m)) :
                i \in {j \in Intersections : m.border[j]}}

InputSpecs(m) ==
    {VehicleAppearing(p, g, v, r) :
        p \in Positions, g \in DrivingGoal, v \in CarIDs, r \in {FALSE}}
    \cup {SpawningFailure(v, <<"input">>) : v \in {None} \cup {Some(c) : c \in CarIDs}}
    \cup {UsingParkedCar(c, b, g) :
            c \in {<<1, "Car">>}, b \in Buildings, g \in DrivingGoal}
    \cup {JustWalking(s, g) : s \in SidewalkSpots(m), g \in SidewalkSpots(m)}
    \cup {UsingBike(v, b, g) : v \in {<<2, "Bike">>}, b \in Buildings, g \in DrivingGoal}
    \cup {UsingTransit(s, g, 1, 1, s2) :
            s \in {SidewalkSpot_building(1, m)},
            g \in {SidewalkSpot_building(NumBuildings, m)},
            s2 \in {None, Some(2)}}

NoCall == [orig |-> None, input |-> None, res |-> None]

(***************************************************************************)
(* TripSpec::get_pathfinding_request                                       *)
(***************************************************************************)
PathRequest(start, end, constraints) ==
    [start |-> start, end |-> end, constraints |-> constraints]

Returns(req) == [panic |-> "none", req |-> req]

path_constraints_car_always(use_vehicle) == "Car"

\* lines 362-366
path_constraints_for(use_vehicle) ==
    IF use_vehicle[2] = "Bike" THEN "Bike" ELSE "Car"

\* lines 356-372
path_vehicle_appearing(spec, m) ==
    LET end == goal_pos(spec.goal, path_constraints_for(spec.use_vehicle), m)
    IN  IF IsSome(end)
        THEN Returns(Some(PathRequest(spec.start_pos, Unwrap(end),
                                      path_constraints_for(spec.use_vehicle))))
        ELSE [panic |-> "unwrap_on_none", req |-> None]

\* lines 381-385
path_using_bike(spec, m) ==
    LET rack == SidewalkSpot_bike_rack(spec.start, m)
    IN  IF IsSome(rack)
        THEN Returns(Some(PathRequest(BuildingSidewalkPos(spec.start),
                                      Unwrap(rack).sidewalk_pos, "Pedestrian")))
        ELSE [panic |-> "unwrap_on_none", req |-> None]

\* lines 354-392
get_pathfinding_request(spec, m) ==
    CASE spec.tag = "VehicleAppearing" -> path_vehicle_appearing(spec, m)
      [] spec.tag = "SpawningFailure" -> Returns(None)
      [] spec.tag = "UsingParkedCar" -> Returns(None)
      [] spec.tag = "JustWalking" ->
            Returns(Some(PathRequest(spec.start.sidewalk_pos, spec.goal.sidewalk_pos,
                                     "Pedestrian")))
      [] spec.tag = "UsingBike" -> path_using_bike(spec, m)
      [] spec.tag = "UsingTransit" ->
            Returns(Some(PathRequest(spec.start.sidewalk_pos,
                                     SidewalkSpot_bus_stop(spec.stop1, m).sidewalk_pos,
                                     "Pedestrian")))

(***************************************************************************)
(* Validation alone: schedule_trip applied to every spec on every map, and *)
(* applied again to what it returned.                                      *)
(***************************************************************************)
InitValidate ==
    /\ map \in Maps
    /\ call = NoCall
    /\ batches = [c \in Callers |-> <<>>]
    /\ trips = <<>>
    /\ taken = <<>>
    /\ people = 1..NumPeople
    /\ ledger = <<>>
    /\ scheduler = <<>>
    /\ started = <<>>
    /\ pc = "spawning"
    /\ asked = <<>>
    /\ path = None

\* one call of the validation on a caller's spec
Validate ==
    /\ call = NoCall
    /\ \E spec \in InputSpecs(map) :
        call' = [orig |-> None, input |-> Some(spec), res |-> Some(validate(spec, map))]
    /\ UNCHANGED <<asked, path, map, batches, trips, taken, people, ledger, scheduler, started, pc>>

\* the validation run again on the spec the last call returned
Revalidate ==
    /\ call # NoCall
    /\ call.orig = None
    /\ Unwrap(call.res).panic = "none"
    /\ call' = [orig |-> call.input,
                input |-> Some(Unwrap(call.res).spec),
                res |-> Some(validate(Unwrap(call.res).spec, map))]
    /\ path' = None
    /\ UNCHANGED <<asked, map, batches, trips, taken, people, ledger, scheduler, started, pc>>

\* the caller drops the result
Forget ==
    /\ call # NoCall
    /\ call' = NoCall
    /\ path' = None
    /\ UNCHANGED <<asked, map, batches, trips, taken, people, ledger, scheduler, started, pc>>

\* the caller asks for the path request of the spec schedule_trip returned
GetPathRequest ==
    /\ call # NoCall
    /\ Unwrap(call.res).panic = "none"
    /\ path = None
    /\ path' = Some([spec |-> Unwrap(call.res).spec,
                     res |-> get_pathfinding_request(Unwrap(call.res).spec, map)])
    /\ UNCHANGED <<asked, call, map, batches, trips, taken, people, ledger, scheduler,
                   started, pc>>

NextValidate == Validate \/ Revalidate \/ Forget \/ GetPathRequest

SpecValidate == InitValidate /\ [][NextValidate]_vars

(***************************************************************************)
(* TripManager and Scheduler, as far as finalize uses them                 *)
(***************************************************************************)
\* TripManager::get_person
get_person(ppl, p) == IF p \in ppl THEN Some(p) ELSE None

\* TripManager::new_trip: the new trip's TripID is its index in the ledger
new_trip(led, person, start_time, trip_start, mode, purpose, modified, legs) ==
    Append(led, [person |-> person, start_time |-> start_time,
                 trip_start |-> trip_start, mode |-> mode, purpose |-> purpose,
                 modified |-> modified, legs |-> legs, cancelled |-> FALSE])

\* TripManager::cancel_unstarted_trip
cancel_unstarted_trip(led, trip) == [led EXCEPT ![trip].cancelled = TRUE]

\* Scheduler::push(time, Command::StartTrip(trip, spec))
push(sch, time, trip, spec) == Append(sch, [time |-> time, trip |-> trip, spec |-> spec])

\* the items the scheduler can hand out next: those of the least time
NextItems(sch) ==
    {i \in 1..Len(sch) : \A j \in 1..Len(sch) : sch[i].time <= sch[j].time}

RemoveAt(seq, i) == SubSeq(seq, 1, i - 1) \o SubSeq(seq, i + 1, Len(seq))

(***************************************************************************)
(* TripSpawner::finalize, one iteration of the loop over self.trips        *)
(***************************************************************************)
Walk(spot) == <<"Walk", spot>>
Drive(car, goal) == <<"Drive", car, goal>>
RideBus_to_the_end(route, maybe_stop2) == <<"RideBus", route, None>>

RideBus(route, maybe_stop2) == <<"RideBus", route, maybe_stop2>>

walk_to_building_always(goal, m) ==
    <<Walk(SidewalkSpot_building(IF goal.kind = "ParkNear" THEN goal.b ELSE 1, m))>>

\* the trailing walk of lines 213-215, 258-263, 291-296
walk_to_building(goal, m) ==
    IF goal.kind = "ParkNear" THEN <<Walk(SidewalkSpot_building(goal.b, m))>> ELSE <<>>

\* the legs built in lines 208-339; the spec is one finalize has a branch for
trip_legs(spec, m) ==
    CASE spec.tag = "VehicleAppearing" ->
            <<Drive(spec.use_vehicle, spec.goal)>> \o walk_to_building(spec.goal, m)
      [] spec.tag = "UsingParkedCar" ->
            <<Walk(SidewalkSpot_deferred_parking_spot), Drive(spec.car, spec.goal)>>
                \o walk_to_building(spec.goal, m)
      [] spec.tag = "JustWalking" -> <<Walk(spec.goal)>>
      [] spec.tag = "UsingBike" ->
            <<Walk(Unwrap(SidewalkSpot_bike_rack(spec.start, m))),
              Drive(spec.bike, spec.goal)>> \o walk_to_building(spec.goal, m)
      [] spec.tag = "UsingTransit" ->
            IF IsSome(spec.maybe_stop2)
            THEN <<Walk(SidewalkSpot_bus_stop(spec.stop1, m)),
                   RideBus(spec.route, Some(Unwrap(spec.maybe_stop2))),
                   Walk(spec.goal)>>
            ELSE <<Walk(SidewalkSpot_bus_stop(spec.stop1, m)),
                   RideBus(spec.route, None)>>

\* the TripMode passed to new_trip in lines 208-339
trip_mode(spec) ==
    CASE spec.tag = "VehicleAppearing" ->
            IF spec.use_vehicle[2] = "Bike" THEN "Bike" ELSE "Drive"
      [] spec.tag = "UsingParkedCar" -> "Drive"
      [] spec.tag = "JustWalking" -> "Walk"
      [] spec.tag = "UsingBike" -> "Bike"
      [] spec.tag = "UsingTransit" -> "Transit"

\* lines 205-339: the panic that stops this iteration before new_trip, or "none"
finalize_panic(plan, m, ppl) ==
    IF ~IsSome(get_person(ppl, plan.person)) THEN "no_person"
    ELSE IF plan.spec.tag = "SpawningFailure" THEN "todo"
    ELSE IF plan.spec.tag = "UsingBike" /\ ~IsSome(SidewalkSpot_bike_rack(plan.spec.start, m))
    THEN "no_bike_rack"
    ELSE "none"

cancel_and_push(plan, trip, led, sch) ==
    [ledger |-> IF plan.cancelled THEN cancel_unstarted_trip(led, trip) ELSE led,
     scheduler |-> push(sch, plan.start_time, trip, plan.spec)]

push_at_time_zero(plan, trip, led, sch) ==
    IF plan.cancelled
    THEN [ledger |-> cancel_unstarted_trip(led, trip), scheduler |-> sch]
    ELSE [ledger |-> led, scheduler |-> push(sch, 0, trip, plan.spec)]

push_first_trip(plan, trip, led, sch) ==
    IF plan.cancelled
    THEN [ledger |-> cancel_unstarted_trip(led, trip), scheduler |-> sch]
    ELSE [ledger |-> led, scheduler |-> push(sch, plan.start_time, 1, plan.spec)]

\* lines 341-348, with trip the TripID new_trip returned
cancel_or_push(plan, trip, led, sch) ==
    IF plan.cancelled
    THEN [ledger |-> cancel_unstarted_trip(led, trip), scheduler |-> sch]
    ELSE [ledger |-> led, scheduler |-> push(sch, plan.start_time, trip, plan.spec)]

\* lines 208-348 for a plan that does not panic: new_trip, then cancel or push
register_trip(plan, m, ppl, led, sch) ==
    LET led2 == new_trip(led, Unwrap(get_person(ppl, plan.person)), plan.start_time,
                         plan.trip_start, trip_mode(plan.spec), plan.purpose,
                         plan.modified, trip_legs(plan.spec, m))
        r == cancel_or_push(plan, Len(led2), led2, sch)
    IN  [panic |-> "none", ledger |-> r.ledger, scheduler |-> r.scheduler]

finalize_plan_rolls_back(plan, m, ppl, led, sch) ==
    IF finalize_panic(plan, m, ppl) # "none"
    THEN [panic |-> finalize_panic(plan, m, ppl), ledger |-> <<>>, scheduler |-> <<>>]
    ELSE register_trip(plan, m, ppl, led, sch)

finalize_plan_registers_failure(plan, m, ppl, led, sch) ==
    IF plan.spec.tag = "SpawningFailure" /\ IsSome(get_person(ppl, plan.person))
    THEN LET led2 == new_trip(led, plan.person, plan.start_time, plan.trip_start,
                              "Drive", plan.purpose, plan.modified, <<>>)
         IN  [panic |-> "none", ledger |-> cancel_unstarted_trip(led2, Len(led2)),
              scheduler |-> sch]
    ELSE IF finalize_panic(plan, m, ppl) # "none"
    THEN [panic |-> finalize_panic(plan, m, ppl), ledger |-> led, scheduler |-> sch]
    ELSE register_trip(plan, m, ppl, led, sch)

\* lines 199-349 for one plan; a panic leaves the ledger and scheduler as they are
finalize_plan(plan, m, ppl, led, sch) ==
    IF finalize_panic(plan, m, ppl) # "none"
    THEN [panic |-> finalize_panic(plan, m, ppl), ledger |-> led, scheduler |-> sch]
    ELSE register_trip(plan, m, ppl, led, sch)

(***************************************************************************)
(* The scenarios of the whole pipeline                                     *)
(***************************************************************************)
ScenarioMaps ==
    {m \in Maps :
        /\ m.lane_len[1] = MaxDist
        /\ \/ \A b \in Buildings : m.rack[b] = 0
           \/ \A b \in Buildings : m.rack[b] = BuildingSidewalkPos(b)[1]
        /\ m.nogoal \subseteq {<<ParkNear(1), "Car">>}}

ScenarioSpecs(m) ==
    {VehicleAppearing(<<1, 0>>, ParkNear(1), <<1, "Car">>, FALSE),
     VehicleAppearing(<<1, 0>>, Border(1, 1), <<2, "Bike">>, FALSE),
     SpawningFailure(None, <<"input">>),
     UsingParkedCar(<<1, "Car">>, 1, ParkNear(NumBuildings)),
     UsingParkedCar(<<1, "Car">>, 1, Border(1, 1)),
     JustWalking(SidewalkSpot_building(1, m), SidewalkSpot_building(NumBuildings, m)),
     JustWalking(SidewalkSpot_building(1, m), SidewalkSpot_building(1, m)),
     UsingTransit(SidewalkSpot_building(1, m), SidewalkSpot_building(NumBuildings, m),
                  1, 1, None),
     UsingTransit(SidewalkSpot_building(1, m), SidewalkSpot_building(NumBuildings, m),
                  1, 1, Some(2))}
    \cup {UsingBike(<<2, "Bike">>, 1, g) : g \in {ParkNear(1), ParkNear(2), Border(1, 1)}}

Init ==
    /\ map \in ScenarioMaps
    /\ call = NoCall
    /\ batches = [c \in Callers |-> <<>>]
    /\ trips = <<>>
    /\ taken = <<>>
    /\ people = 1..NumPeople
    /\ ledger = <<>>
    /\ scheduler = <<>>
    /\ started = <<>>
    /\ pc = "spawning"
    /\ asked = <<>>
    /\ path = None

RECURSIVE SumLen(_, _)
SumLen(f, S) ==
    IF S = {} THEN 0
    ELSE LET c == CHOOSE x \in S : TRUE IN Len(f[c]) + SumLen(f, S \ {c})

\* the plans schedule_trip has returned so far
PlansOut == Len(trips) + SumLen(batches, Callers)

\* caller c calls schedule_trip and keeps the plan it returns
ScheduleTrip(c) ==
    /\ pc = "spawning"
    /\ PlansOut < MaxPlans
    /\ \E person \in PersonIDs, start_time \in Times, spec \in ScenarioSpecs(map),
          cancelled \in BOOLEAN :
        LET r == schedule_trip(person, start_time, spec, <<"Bldg", 1>>, "Home",
                               cancelled, FALSE, map)
        IN  IF r.panic # "none"
            THEN /\ pc' = "panic_schedule_trip"
                 /\ UNCHANGED batches
            ELSE /\ batches' = [batches EXCEPT ![c] = Append(@, r.plan)]
                 /\ UNCHANGED pc
    /\ UNCHANGED <<asked, path, map, call, trips, taken, people, ledger, scheduler, started>>

ScheduleTrips_prepends(c) ==
    /\ pc = "spawning"
    /\ batches[c] # <<>>
    /\ trips' = batches[c] \o trips
    /\ batches' = [batches EXCEPT ![c] = <<>>]
    /\ UNCHANGED <<asked, path, map, call, taken, people, ledger, scheduler, started, pc>>

ScheduleTrips_replaces(c) ==
    /\ pc = "spawning"
    /\ batches[c] # <<>>
    /\ trips' = batches[c]
    /\ batches' = [batches EXCEPT ![c] = <<>>]
    /\ UNCHANGED <<asked, path, map, call, taken, people, ledger, scheduler, started, pc>>

\* caller c hands its plans to schedule_trips
ScheduleTrips(c) ==
    /\ pc = "spawning"
    /\ batches[c] # <<>>
    /\ trips' = trips \o batches[c]
    /\ batches' = [batches EXCEPT ![c] = <<>>]
    /\ UNCHANGED <<asked, path, map, call, taken, people, ledger, scheduler, started, pc>>

\* finalize is called: it consumes the spawner
FinalizeBegin ==
    /\ pc = "spawning"
    /\ pc' = "finalizing"
    /\ UNCHANGED <<asked, path, map, call, batches, trips, taken, people, ledger, scheduler, started>>

\* one iteration of the loop of finalize
FinalizeStep ==
    /\ pc = "finalizing"
    /\ trips # <<>>
    /\ LET r == finalize_plan(Head(trips), map, people, ledger, scheduler)
       IN  /\ ledger' = r.ledger
           /\ scheduler' = r.scheduler
           /\ pc' = IF r.panic = "none" THEN "finalizing" ELSE "panic_" \o r.panic
    /\ taken' = Append(taken, Head(trips))
    /\ trips' = Tail(trips)
    /\ UNCHANGED <<asked, path, map, call, batches, people, started>>

\* the loop of finalize ends
FinalizeEnd ==
    /\ pc = "finalizing"
    /\ trips = <<>>
    /\ pc' = "done"
    /\ UNCHANGED <<asked, path, map, call, batches, trips, taken, people, ledger, scheduler, started>>

\* the simulation takes the next command off the scheduler
SchedulerPop ==
    /\ pc = "done"
    /\ \E i \in NextItems(scheduler) :
        /\ started' = Append(started, scheduler[i])
        /\ scheduler' = RemoveAt(scheduler, i)
    /\ UNCHANGED <<asked, path, map, call, batches, trips, taken, people, ledger, pc>>

Next ==
    \/ \E c \in Callers : ScheduleTrip(c)
    \/ \E c \in Callers : ScheduleTrips(c)
    \/ FinalizeBegin
    \/ FinalizeStep
    \/ FinalizeEnd
    \/ SchedulerPop

Spec == Init /\ [][Next]_vars

(***************************************************************************)
(* The pipeline with callers that vary every argument of schedule_trip     *)
(***************************************************************************)
\* the argument tuples (person, start_time, spec, trip_start, purpose, cancelled,
\* modified) the callers pass to schedule_trip on map m
Requests(m) ==
    {TripSpawnPlan(1, 1, JustWalking(SidewalkSpot_building(1, m),
                                     SidewalkSpot_building(NumBuildings, m)),
                   <<"Bldg", 1>>, "Home", FALSE, FALSE),
     TripSpawnPlan(1, 0, UsingBike(<<2, "Bike">>, 1, ParkNear(NumBuildings)),
                   <<"Bldg", 1>>, "Work", FALSE, TRUE),
     TripSpawnPlan(1, 0, UsingTransit(SidewalkSpot_building(NumBuildings, m),
                                      SidewalkSpot_building(1, m), 1, 1, Some(2)),
                   <<"Bldg", NumBuildings>>, "Home", TRUE, FALSE),
     TripSpawnPlan(1, 1, VehicleAppearing(<<1, 0>>, ParkNear(1), <<1, "Car">>, FALSE),
                   <<"Border", 1>>, "Work", FALSE, FALSE),
     TripSpawnPlan(NumPeople + 1, 0,
                   UsingParkedCar(<<1, "Car">>, 1, Border(1, 1)),
                   <<"Bldg", 1>>, "Shopping", FALSE, FALSE),
     TripSpawnPlan(1, 0, JustWalking(SidewalkSpot_building(1, m),
                                     SidewalkSpot_building(1, m)),
                   <<"Bldg", 1>>, "Home", FALSE, TRUE)}

\* caller c calls schedule_trip with one of the argument tuples and keeps the
\* plan it returns
Ask(c) ==
    /\ pc = "spawning"
    /\ Len(asked) < MaxCalls
    /\ \E a \in Requests(map) :
        LET r == schedule_trip(a.person, a.start_time, a.spec, a.trip_start, a.purpose,
                               a.cancelled, a.modified, map)
        IN  /\ asked' = Append(asked, a)
            /\ IF r.panic # "none"
               THEN /\ pc' = "panic_schedule_trip"
                    /\ UNCHANGED batches
               ELSE /\ batches' = [batches EXCEPT ![c] = Append(@, r.plan)]
                    /\ UNCHANGED pc
    /\ UNCHANGED <<path, map, call, trips, taken, people, ledger, scheduler, started>>

NextCalls ==
    \/ \E c \in Callers : Ask(c)
    \/ \E c \in Callers : ScheduleTrips(c)
    \/ FinalizeBegin
    \/ FinalizeStep
    \/ FinalizeEnd
    \/ SchedulerPop

SpecCalls == Init /\ [][NextCalls]_vars

(***************************************************************************)
(* Properties of the validation (SpecValidate)                             *)
(***************************************************************************)
Called == call # NoCall
CallIn == Unwrap(call.input)
CallRes == Unwrap(call.res)
InBounds(pos) == pos[2] < map.lane_len[pos[1]]
HasRack(b) == map.rack[b] # 0

\* C8: schedule_trip on a VehicleAppearing spec panics if and only if the start
\* offset is greater than or equal to the length of the start lane.
C8_VehicleAppearingAbortsIffOutOfBounds ==
    (Called /\ CallIn.tag = "VehicleAppearing") =>
        (CallRes.panic # "none"
            <=> CallIn.start_pos[2] >= map.lane_len[CallIn.start_pos[1]])

C8_Witness ==
    /\ Called
    /\ CallIn.tag = "VehicleAppearing"
    /\ CallIn.start_pos[2] = map.lane_len[CallIn.start_pos[1]]
    /\ CallIn.goal.kind = "ParkNear"
    /\ CallRes.panic = "isnt_that_long"

\* C9: schedule_trip on a JustWalking spec panics when start equals goal and
\* otherwise returns the spec unchanged.
C9_JustWalkingAbortsOnSameEndpoints ==
    (Called /\ CallIn.tag = "JustWalking") =>
        IF CallIn.start = CallIn.goal
        THEN CallRes.panic # "none"
        ELSE CallRes.panic = "none" /\ CallRes.spec = CallIn

C9_Witness ==
    /\ Called
    /\ CallIn.tag = "JustWalking"
    /\ CallIn.start = CallIn.goal
    /\ CallRes.panic = "walking_doesnt_make_sense"

\* C10: for an in-bounds VehicleAppearing spec, schedule_trip returns
\* SpawningFailure carrying the vehicle when the goal position does not resolve
\* under Bike constraints for a bike and Car constraints for any other vehicle,
\* and returns the spec unchanged when it resolves.
C10_UnresolvedGoalBecomesFailure ==
    (Called /\ CallIn.tag = "VehicleAppearing" /\ InBounds(CallIn.start_pos)) =>
        LET c == IF CallIn.use_vehicle[2] = "Bike" THEN "Bike" ELSE "Car"
        IN  /\ CallRes.panic = "none"
            /\ IF <<CallIn.goal, c>> \in map.nogoal
               THEN /\ CallRes.spec.tag = "SpawningFailure"
                    /\ CallRes.spec.use_vehicle = Some(CallIn.use_vehicle)
               ELSE CallRes.spec = CallIn

C10_Witness ==
    /\ Called
    /\ CallIn.tag = "VehicleAppearing"
    /\ InBounds(CallIn.start_pos)
    /\ CallIn.use_vehicle[2] = "Bus"
    /\ <<CallIn.goal, "Car">> \in map.nogoal
    /\ CallRes.spec.tag = "SpawningFailure"

\* C6: for a UsingBike spec with goal ParkNear(b), where the start building and b
\* both have a bike rack and the two racks are on the same sidewalk lane,
\* schedule_trip returns JustWalking from the start building to building b.
C6_SameSidewalkBikeTripWalks ==
    (Called /\ CallIn.tag = "UsingBike" /\ CallIn.goal.kind = "ParkNear"
        /\ HasRack(CallIn.start) /\ HasRack(CallIn.goal.b)
        /\ map.rack[CallIn.start] = map.rack[CallIn.goal.b]) =>
        /\ CallRes.panic = "none"
        /\ CallRes.spec = JustWalking(SidewalkSpot_building(CallIn.start, map),
                                      SidewalkSpot_building(CallIn.goal.b, map))

C6_Witness ==
    /\ Called
    /\ CallIn.tag = "UsingBike"
    /\ CallIn.goal.kind = "ParkNear"
    /\ CallIn.goal.b # CallIn.start
    /\ HasRack(CallIn.start)
    /\ map.rack[CallIn.start] = map.rack[CallIn.goal.b]
    /\ CallRes.spec.tag = "JustWalking"

\* C7: for a UsingBike spec whose start building has no bike rack, schedule_trip
\* returns the backup JustWalking spec when there is one (goal ParkNear, or goal
\* Border with a pedestrian crossing at that border) and SpawningFailure carrying
\* the bike exactly when there is none.
C7_NoRackFallsBackOrFails ==
    (Called /\ CallIn.tag = "UsingBike" /\ ~HasRack(CallIn.start)) =>
        /\ CallRes.panic = "none"
        /\ IF CallIn.goal.kind = "ParkNear"
           THEN CallRes.spec = JustWalking(SidewalkSpot_building(CallIn.start, map),
                                           SidewalkSpot_building(CallIn.goal.b, map))
           ELSE IF map.border[CallIn.goal.i]
           THEN CallRes.spec =
                    JustWalking(SidewalkSpot_building(CallIn.start, map),
                                Unwrap(SidewalkSpot_end_at_border(CallIn.goal.i, map)))
           ELSE /\ CallRes.spec.tag = "SpawningFailure"
                /\ CallRes.spec.use_vehicle = Some(CallIn.bike)

C7_Witness ==
    /\ Called
    /\ CallIn.tag = "UsingBike"
    /\ ~HasRack(CallIn.start)
    /\ CallIn.goal.kind = "Border"
    /\ ~map.border[CallIn.goal.i]
    /\ CallRes.spec.tag = "SpawningFailure"

\* C4: when schedule_trip has rewritten a UsingBike spec to JustWalking, running
\* schedule_trip on that JustWalking spec does not panic and returns it unchanged.
C4_RevalidatingFallbackIsNoOp ==
    (Called /\ IsSome(call.orig) /\ Unwrap(call.orig).tag = "UsingBike"
        /\ CallIn.tag = "JustWalking") =>
        (CallRes.panic = "none" /\ CallRes.spec = CallIn)

(***************************************************************************)
(* Properties of finalize (Spec)                                           *)
(***************************************************************************)
\* every command pushed so far, handed out or not
Items == started \o scheduler
ItemsOf(trip) == {k \in 1..Len(Items) : Items[k].trip = trip}
FinalizeOver == pc \in {"done", "panic_no_person", "panic_todo", "panic_no_bike_rack"}

\* the plans finalize has a way to turn into a trip
Convertible(plan) ==
    /\ plan.person \in people
    /\ plan.spec.tag # "SpawningFailure"
    /\ plan.spec.tag = "UsingBike" => HasRack(plan.spec.start)

\* the i-th drained plan has its own trip in the ledger
RegisteredAs(i) ==
    /\ i <= Len(ledger)
    /\ ledger[i].person = taken[i].person
    /\ ledger[i].start_time = taken[i].start_time

\* C1 as stated, read for the plans of registered people: for every cancelled
\* plan finalize drains, exactly one trip is registered in the ledger, that trip
\* is marked cancelled, and no command for it is pushed to the scheduler.
C1_EveryCancelledPlanIsRegistered ==
    /\ Len(ledger) <= Len(taken)
    /\ \A i \in 1..Len(taken) :
        (taken[i].cancelled /\ taken[i].person \in people) =>
            /\ RegisteredAs(i)
            /\ ledger[i].cancelled
            /\ ItemsOf(i) = {}

\* C1 amended: for every cancelled plan finalize drains whose person is
\* registered and whose spec finalize can turn into legs (not SpawningFailure,
\* and a bike rack at the start of a UsingBike), exactly one trip is registered,
\* it is marked cancelled, and no command for it is pushed to the scheduler.
C1_ConvertibleCancelledPlanIsRegistered ==
    /\ Len(ledger) <= Len(taken)
    /\ \A i \in 1..Len(taken) :
        (taken[i].cancelled /\ Convertible(taken[i])) =>
            /\ RegisteredAs(i)
            /\ ledger[i].cancelled
            /\ ItemsOf(i) = {}

C1_Witness ==
    /\ pc = "done"
    /\ Len(taken) = 2
    /\ taken[1].cancelled
    /\ ~taken[2].cancelled
    /\ ledger[1].cancelled
    /\ Len(Items) = 1

\* C2: when finalize has run through a buffer, the scheduler holds exactly one
\* start-trip command per plan that is not cancelled, keyed by that plan's
\* start_time, and the scheduler hands the trips out in non-decreasing
\* start_time order, whatever the order of the plans in the buffer.
C2_OneEventPerPlanInTimeOrder ==
    pc = "done" =>
        /\ Len(Items) = Cardinality({i \in 1..Len(taken) : ~taken[i].cancelled})
        /\ \A i \in 1..Len(taken) :
            ~taken[i].cancelled =>
                /\ Cardinality(ItemsOf(i)) = 1
                /\ \A k \in ItemsOf(i) : Items[k].time = taken[i].start_time
        /\ \A j, k \in 1..Len(started) :
            j < k => taken[started[j].trip].start_time <= taken[started[k].trip].start_time

C2_Witness ==
    /\ pc = "done"
    /\ scheduler = <<>>
    /\ Len(started) = 2
    /\ Len(taken) = 2
    /\ taken[1].start_time > taken[2].start_time
    /\ started[1].trip = 2

\* C3: every spec that finalize pushes to the scheduler is executable: never a
\* JustWalking spec whose start equals its goal, and never a VehicleAppearing
\* spec that starts past the end of its lane.
C3_PushedSpecsAreNotDegenerate ==
    \A k \in 1..Len(Items) :
        /\ Items[k].spec.tag = "JustWalking" => Items[k].spec.start # Items[k].spec.goal
        /\ Items[k].spec.tag = "VehicleAppearing" => InBounds(Items[k].spec.start_pos)

\* C5: an iteration of finalize on a plan whose spec is SpawningFailure panics,
\* cancelled or not, and leaves the ledger and the scheduler as they were.
C5_SpawningFailureAbortsFinalize ==
    [][(pc = "finalizing" /\ trips # <<>> /\ Head(trips).spec.tag = "SpawningFailure") =>
            /\ pc' = IF Head(trips).person \in people THEN "panic_todo"
                     ELSE "panic_no_person"
            /\ ledger' = ledger
            /\ scheduler' = scheduler]_vars

C5_Witness ==
    /\ pc = "panic_todo"
    /\ Len(taken) = 2
    /\ taken[2].spec.tag = "SpawningFailure"
    /\ taken[2].cancelled
    /\ Len(ledger) = 1

(***************************************************************************)
(* Properties of get_pathfinding_request and of what validation returns    *)
(* (SpecValidate)                                                          *)
(***************************************************************************)
PathAsked == IsSome(path)
PathSpec == Unwrap(path).spec
PathRes == Unwrap(path).res
VehicleConstraints(use_vehicle) == IF use_vehicle[2] = "Bike" THEN "Bike" ELSE "Car"

\* C15: on a spec schedule_trip returned, get_pathfinding_request returns None
\* exactly for SpawningFailure and UsingParkedCar; for JustWalking, UsingBike and
\* UsingTransit it returns a request with Pedestrian constraints; for
\* VehicleAppearing it returns a request from start_pos to the resolved goal
\* position, with Bike constraints for a bike and Car constraints otherwise.
C15_PathRequestPerVariant ==
    PathAsked =>
        /\ PathRes.panic = "none"
        /\ PathRes.req = None <=> PathSpec.tag \in {"SpawningFailure", "UsingParkedCar"}
        /\ PathSpec.tag \in {"JustWalking", "UsingBike", "UsingTransit"} =>
            /\ IsSome(PathRes.req)
            /\ Unwrap(PathRes.req).constraints = "Pedestrian"
        /\ PathSpec.tag = "VehicleAppearing" =>
            /\ IsSome(PathRes.req)
            /\ Unwrap(PathRes.req).constraints = VehicleConstraints(PathSpec.use_vehicle)
            /\ Unwrap(PathRes.req).start = PathSpec.start_pos
            /\ Some(Unwrap(PathRes.req).end) =
                    goal_pos(PathSpec.goal, VehicleConstraints(PathSpec.use_vehicle), map)

C15_Witness ==
    /\ PathAsked
    /\ PathSpec.tag = "VehicleAppearing"
    /\ PathSpec.use_vehicle[2] = "Bike"
    /\ map.nogoal = {<<PathSpec.goal, "Car">>}
    /\ IsSome(PathRes.req)
    /\ Unwrap(PathRes.req).constraints = "Bike"

\* C19: on one map, what schedule_trip returns meets the preconditions of the
\* later unwraps: a returned UsingBike has a bike rack at its start building, a
\* returned VehicleAppearing has a goal position that resolves under its
\* vehicle's constraints, schedule_trip never unwraps an absent backup plan, and
\* get_pathfinding_request does not panic on a returned spec.
C19_ReturnedSpecsMeetUnwrapPreconditions ==
    /\ Called => CallRes.panic # "unwrap_on_none"
    /\ (Called /\ CallRes.panic = "none" /\ CallRes.spec.tag = "UsingBike") =>
            HasRack(CallRes.spec.start)
    /\ (Called /\ CallRes.panic = "none" /\ CallRes.spec.tag = "VehicleAppearing") =>
            <<CallRes.spec.goal, VehicleConstraints(CallRes.spec.use_vehicle)>>
                \notin map.nogoal
    /\ PathAsked => PathRes.panic = "none"

C19_Witness ==
    /\ Called
    /\ CallIn.tag = "UsingBike"
    /\ CallRes.spec.tag = "UsingBike"
    /\ \E b \in Buildings : ~HasRack(b)
    /\ PathAsked
    /\ IsSome(PathRes.req)

\* C20: the zero-length border trip panic of a VehicleAppearing spec never fires:
\* a spec that starts at the end of the lane of its Border goal has already
\* panicked at the bounds check, and a spec that starts in bounds on the lane of
\* its Border goal is not rejected.
C20_BorderEdgePanicNeverFires ==
    (Called /\ CallIn.tag = "VehicleAppearing") =>
        /\ CallRes.panic # "edge_of_border"
        /\ (CallIn.goal.kind = "Border" /\ CallIn.start_pos[1] = CallIn.goal.l
                /\ CallIn.start_pos[2] = map.lane_len[CallIn.goal.l]) =>
                    CallRes.panic = "isnt_that_long"
        /\ (CallIn.goal.kind = "Border" /\ CallIn.start_pos[1] = CallIn.goal.l
                /\ InBounds(CallIn.start_pos)) =>
                    CallRes.panic = "none"

C20_Witness ==
    /\ Called
    /\ CallIn.tag = "VehicleAppearing"
    /\ CallIn.goal.kind = "Border"
    /\ CallIn.start_pos[1] = CallIn.goal.l
    /\ CallIn.start_pos[2] = map.lane_len[CallIn.goal.l]
    /\ CallRes.panic = "isnt_that_long"

(***************************************************************************)
(* Properties of the trips finalize registers (Spec)                       *)
(***************************************************************************)
\* the drained plans of the given variant whose person is registered
TakenOf(tag) ==
    {i \in 1..Len(taken) : taken[i].spec.tag = tag /\ taken[i].person \in people}

\* C11: finalize registers, for a UsingTransit plan, a trip of mode Transit
\* with exactly the two legs Walk(bus stop of stop1), RideBus(route, None) when
\* maybe_stop2 is None, and exactly the three legs Walk(bus stop of stop1),
\* RideBus(route, Some(stop2)), Walk(goal) when maybe_stop2 is Some(stop2).
C11_TransitLegs ==
    \A i \in TakenOf("UsingTransit") :
        /\ RegisteredAs(i)
        /\ ledger[i].mode = "Transit"
        /\ ledger[i].legs[1] = Walk(SidewalkSpot_bus_stop(taken[i].spec.stop1, map))
        /\ ledger[i].legs[2] = <<"RideBus", taken[i].spec.route, taken[i].spec.maybe_stop2>>
        /\ IF taken[i].spec.maybe_stop2 = None
           THEN Len(ledger[i].legs) = 2
           ELSE /\ Len(ledger[i].legs) = 3
                /\ ledger[i].legs[3] = Walk(taken[i].spec.goal)

C11_Witness ==
    /\ Len(ledger) = 2
    /\ taken[1].spec.tag = "UsingTransit"
    /\ taken[2].spec.tag = "UsingTransit"
    /\ Len(ledger[1].legs) = 2
    /\ Len(ledger[2].legs) = 3

\* C12: finalize registers, for a UsingParkedCar plan, the legs Walk(deferred
\* parking spot), Drive(car, goal), followed by Walk(building b) if and only if
\* the goal is ParkNear(b); with a Border goal there are exactly two legs.
C12_ParkedCarLegs ==
    \A i \in TakenOf("UsingParkedCar") :
        /\ RegisteredAs(i)
        /\ ledger[i].mode = "Drive"
        /\ ledger[i].legs[1] = Walk(SidewalkSpot_deferred_parking_spot)
        /\ ledger[i].legs[2] = <<"Drive", taken[i].spec.car, taken[i].spec.goal>>
        /\ IF taken[i].spec.goal.kind = "ParkNear"
           THEN /\ Len(ledger[i].legs) = 3
                /\ ledger[i].legs[3] =
                        Walk(SidewalkSpot_building(taken[i].spec.goal.b, map))
           ELSE Len(ledger[i].legs) = 2

C12_Witness ==
    /\ Len(ledger) = 2
    /\ taken[1].spec.tag = "UsingParkedCar"
    /\ taken[2].spec.tag = "UsingParkedCar"
    /\ taken[1].spec.goal.kind = "Border"
    /\ Len(ledger[1].legs) = 2
    /\ Len(ledger[2].legs) = 3

\* the trips of the ledger that are cancelled
CancelledTrips == {i \in 1..Len(ledger) : ledger[i].cancelled}

\* C17: while finalize runs without a panic, and when it has ended, every
\* drained plan has exactly one trip and either that trip is cancelled or one
\* command was pushed for it, never both and never neither; the number of trips
\* is the number of cancelled trips plus the number of commands; each command
\* carries the trip of its own plan, that plan's start_time and that plan's
\* spec; and the buffer is empty when finalize has ended.
C17_OneTripAndOneOutcomePerPlan ==
    pc \in {"finalizing", "done"} =>
        /\ Len(ledger) = Len(taken)
        /\ Len(ledger) = Cardinality(CancelledTrips) + Len(Items)
        /\ \A i \in 1..Len(taken) :
            /\ ledger[i].cancelled = taken[i].cancelled
            /\ Cardinality(ItemsOf(i)) = IF taken[i].cancelled THEN 0 ELSE 1
        /\ \A k \in 1..Len(Items) :
            /\ Items[k].trip \in 1..Len(taken)
            /\ Items[k].spec = taken[Items[k].trip].spec
            /\ Items[k].time = taken[Items[k].trip].start_time
        /\ pc = "done" => trips = <<>>

C17_Witness ==
    /\ pc = "done"
    /\ Len(taken) = 2
    /\ ~taken[1].cancelled
    /\ ~taken[2].cancelled
    /\ taken[1].spec # taken[2].spec
    /\ Len(Items) = 2

(***************************************************************************)
(* Properties of the calls and of the buffer (SpecCalls)                   *)
(***************************************************************************)
Last(seq) == seq[Len(seq)]

\* the plan and the argument tuple agree on everything but the spec
SameFrame(plan, a) ==
    /\ plan.person = a.person
    /\ plan.start_time = a.start_time
    /\ plan.trip_start = a.trip_start
    /\ plan.purpose = a.purpose
    /\ plan.cancelled = a.cancelled
    /\ plan.modified = a.modified

\* the trip is the one finalize registers for the plan
TripOfPlan(trip, plan) ==
    /\ trip.person = plan.person
    /\ trip.start_time = plan.start_time
    /\ trip.trip_start = plan.trip_start
    /\ trip.purpose = plan.purpose
    /\ trip.modified = plan.modified
    /\ trip.mode = trip_mode(plan.spec)
    /\ trip.legs = trip_legs(plan.spec, map)

\* C13: a call of schedule_trip leaves the buffer, the ledger and the scheduler
\* as they were; the plan it returns has the caller's person, start_time,
\* trip_start, purpose, cancelled and modified; and the ledger and the scheduler
\* change only when finalize works on a plan that schedule_trips put in the
\* buffer, so they are empty as long as finalize has not been called.
C13_ScheduleTripSchedulesNothing ==
    [][/\ asked' # asked =>
            /\ trips' = trips
            /\ taken' = taken
            /\ ledger' = ledger
            /\ scheduler' = scheduler
            /\ started' = started
            /\ \A c \in Callers :
                batches'[c] # batches[c] =>
                    /\ batches'[c] = Append(batches[c], Last(batches'[c]))
                    /\ SameFrame(Last(batches'[c]), Last(asked'))
       /\ (ledger' # ledger \/ Len(scheduler') > Len(scheduler)) =>
            /\ pc = "finalizing"
            /\ trips # <<>>
            /\ asked' = asked
            /\ batches' = batches
       /\ pc' = "spawning" => (ledger' = <<>> /\ scheduler' = <<>>)]_vars

C13_Witness ==
    /\ pc = "spawning"
    /\ Len(asked) = 2
    /\ trips = <<>>
    /\ ledger = <<>>
    /\ scheduler = <<>>
    /\ Len(batches[1]) = 2
    /\ batches[1][2].modified
    /\ ~batches[1][2].cancelled
    /\ batches[1][2].spec # asked[2].spec

\* every plan schedule_trip returned was handed to schedule_trips
AllHanded == \A c \in Callers : batches[c] = <<>>
NotCancelled == {j \in 1..Len(asked) : ~asked[j].cancelled}

\* C14: when finalize has run through the plans of all the calls, the set of
\* (start_time, spec) of the start-trip commands is the set of (start_time,
\* validated spec) of the calls that are not cancelled, one command each,
\* whatever the interleaving of the calls and the order of the schedule_trips
\* calls were; and the trips start in non-decreasing start_time order.
C14_StartEventsDependOnRequestsOnly ==
    (pc = "done" /\ AllHanded) =>
        /\ {<<Items[k].time, Items[k].spec>> : k \in 1..Len(Items)} =
                {<<asked[j].start_time, validate(asked[j].spec, map).spec>> :
                    j \in NotCancelled}
        /\ Len(Items) = Cardinality(NotCancelled)
        /\ \A j, k \in 1..Len(started) : j < k => started[j].time <= started[k].time

C14_Witness ==
    /\ pc = "done"
    /\ AllHanded
    /\ Len(asked) = 3
    /\ Len(taken) = 3
    /\ taken[1].purpose # asked[1].purpose
    /\ taken[1].start_time > taken[3].start_time
    /\ Len(started) = 2
    /\ started[1].trip = 3

\* C16: a call of schedule_trips appends the batch, in its own order, to the
\* end of the buffer; the buffer changes in no other way until finalize drains
\* it from the front; and the trip finalize registers for the i-th plan of the
\* buffer is the i-th trip of the ledger.
C16_BufferAndLedgerKeepCallOrder ==
    [][/\ \A c \in Callers :
            (batches[c] # <<>> /\ batches'[c] = <<>>) => trips' = trips \o batches[c]
       /\ (trips' # trips /\ pc = "spawning") =>
            \E c \in Callers : trips' = trips \o batches[c]
       /\ pc = "finalizing" => taken' \o trips' = taken \o trips
       /\ Len(ledger') > Len(ledger) =>
            /\ Len(ledger') = Len(taken')
            /\ Len(ledger') = Len(ledger) + 1
            /\ Last(taken') = Head(trips)
            /\ TripOfPlan(Last(ledger'), Head(trips))]_vars

C16_Witness ==
    /\ pc = "done"
    /\ batches[1] = <<>>
    /\ Len(batches[2]) = 1
    /\ Len(ledger) = 2
    /\ Len(asked) = 3
    /\ SameFrame(taken[1], asked[2])
    /\ SameFrame(taken[2], asked[3])
    /\ ~SameFrame(taken[1], asked[3])
    /\ TripOfPlan(ledger[2], taken[2])
    /\ ~TripOfPlan(ledger[1], taken[2])

FinalizePanicked == pc \in {"panic_no_person", "panic_todo", "panic_no_bike_rack"}

\* C18: when finalize has panicked on the k-th plan of the buffer, the ledger
\* holds exactly the trips of the first k-1 plans, each cancelled if its plan is
\* cancelled and otherwise with its one command still pushed, and there is no
\* trip and no command for the k-th plan or for any plan behind it.
C18_PanicKeepsEarlierEffectsOnly ==
    FinalizePanicked =>
        /\ taken # <<>>
        /\ Len(ledger) = Len(taken) - 1
        /\ \A i \in 1..Len(ledger) :
            /\ TripOfPlan(ledger[i], taken[i])
            /\ ledger[i].cancelled = taken[i].cancelled
            /\ Cardinality(ItemsOf(i)) = IF taken[i].cancelled THEN 0 ELSE 1
        /\ \A k \in 1..Len(Items) :
            /\ Items[k].trip \in 1..Len(ledger)
            /\ Items[k].spec = taken[Items[k].trip].spec
            /\ Items[k].time = taken[Items[k].trip].start_time

C18_Witness ==
    /\ pc = "panic_todo"
    /\ Len(taken) = 2
    /\ Len(ledger) = 1
    /\ Len(scheduler) = 1
    /\ trips # <<>>
    /\ taken[2].spec.tag = "SpawningFailure"

====
